---- MODULE Spec2Model ----
(***************************************************************************)
(* Model of inscriptis/model/canvas.py: the Canvas (blocks of text         *)
(* snippets, whitespace normalisation) and the Line (one rendered line).   *)
(*                                                                         *)
(* A Python str is modelled as a sequence of one-character strings, so     *)
(* that indexing, splitting and joining are computed as the code computes  *)
(* them.                                                                   *)
(***************************************************************************)
EXTENDS Integers, Sequences, FiniteSets, TLC

VARIABLES
    \* ---- Canvas (canvas.py:19-83)
    blocks,          \* Canvas.blocks: list of finished block strings
    current_block,   \* Canvas.current_block: list of TextSnippet
    op,              \* name of the last Canvas method called
    prev_op,         \* name of the Canvas method called before that
    ret,             \* value returned by the last Canvas.get_text call
    ncalls,          \* number of Canvas method calls made so far
    ref_blocks,      \* a second Canvas that receives the same writes and
    ref_current,     \*   flushes, but none of the get_text calls
    gt_open,         \* some get_text call found the open block non-empty
    written,         \* the texts passed to write_block/write_inline, in order
    \* ---- Canvas.normalize as a pure function (canvas.py:41-72)
    snippets,        \* the argument list being built
    normalized,      \* the result list of normalize(snippets), once called
    norm_done,       \* normalize has been called
    \* ---- Line (canvas.py:86-147)
    line,            \* the fields of one Line object
    content0,        \* Line.content as it was before the last get_text call
    line_text,       \* value returned by the last Line.get_text call
    line_calls       \* number of Line.get_text calls made so far

canvasVars == <<blocks, current_block, op, prev_op, ret, ncalls, ref_blocks, ref_current, gt_open, written>>
normVars == <<snippets, normalized, norm_done>>
lineVars == <<line, content0, line_text, line_calls>>
vars == <<canvasVars, normVars, lineVars>>

----------------------------------------------------------------------------
(* Bounds *)

MaxCalls == 4
MaxSnippets == 3
MaxLen == 1
MaxContentLen == 3
MaxPadding == 2
MaxMargin == 1
MaxLineCalls == 2

----------------------------------------------------------------------------
(* Characters and strings *)

NUL == "\\0"
SP == " "
NL == "\n"

\* str.isspace() / the whitespace set of str.split() and str.rstrip()
Whitespace == {" ", "\n", "\t"}

isspace(ch) == ch \in Whitespace

RECURSIVE SeqsUpTo(_, _)
SeqsUpTo(S, n) ==
    IF n = 0 THEN {<<>>}
    ELSE LET shorter == SeqsUpTo(S, n - 1)
         IN  shorter \cup {Append(s, x) : s \in {t \in shorter : Len(t) = n - 1}, x \in S}

\* sep.join(parts)
RECURSIVE join(_, _)
join(sep, parts) ==
    IF parts = <<>> THEN <<>>
    ELSE IF Len(parts) = 1 THEN parts[1]
    ELSE parts[1] \o sep \o join(sep, Tail(parts))

\* s * n (a non-positive count gives the empty string)
RECURSIVE repeat(_, _)
repeat(s, n) == IF n <= 0 THEN <<>> ELSE s \o repeat(s, n - 1)

\* s[i:i+len(old)] == old
StartsAt(s, i, old) ==
    /\ i + Len(old) - 1 <= Len(s)
    /\ \A k \in 1..Len(old) : s[i + k - 1] = old[k]

\* s.replace(old, new): left to right, non-overlapping (old is non-empty)
RECURSIVE replaceFrom(_, _, _, _)
replaceFrom(s, i, old, new) ==
    IF i > Len(s) THEN <<>>
    ELSE IF StartsAt(s, i, old) THEN new \o replaceFrom(s, i + Len(old), old, new)
    ELSE <<s[i]>> \o replaceFrom(s, i + 1, old, new)

replace(s, old, new) == replaceFrom(s, 1, old, new)

\* s.split(sep) for a one-character sep: empty pieces are kept
RECURSIVE splitFrom(_, _, _, _)
splitFrom(s, i, sep, cur) ==
    IF i > Len(s) THEN <<cur>>
    ELSE IF s[i] = sep THEN <<cur>> \o splitFrom(s, i + 1, sep, <<>>)
    ELSE splitFrom(s, i + 1, sep, Append(cur, s[i]))

\* s.partition(sep) in place of s.split(sep): only the first sep splits
split_First(s, sep) ==
    IF \E i \in 1..Len(s) : s[i] = sep
    THEN LET i == CHOOSE j \in 1..Len(s) : s[j] = sep /\ \A k \in 1..(j - 1) : s[k] # sep
         IN  <<SubSeq(s, 1, i - 1), SubSeq(s, i + 1, Len(s))>>
    ELSE <<s>>

split(s, sep) == splitFrom(s, 1, sep, <<>>)

\* s.split(): split on runs of whitespace, no empty pieces
RECURSIVE splitWsFrom(_, _, _)
splitWsFrom(s, i, cur) ==
    IF i > Len(s) THEN (IF cur = <<>> THEN <<>> ELSE <<cur>>)
    ELSE IF isspace(s[i])
         THEN (IF cur = <<>> THEN <<>> ELSE <<cur>>) \o splitWsFrom(s, i + 1, <<>>)
    ELSE splitWsFrom(s, i + 1, Append(cur, s[i]))

\* s.split(' ') without its empty pieces: only the space character splits
RECURSIVE splitWsFrom_SpaceOnly(_, _, _)
splitWsFrom_SpaceOnly(s, i, cur) ==
    IF i > Len(s) THEN (IF cur = <<>> THEN <<>> ELSE <<cur>>)
    ELSE IF s[i] = " "
         THEN (IF cur = <<>> THEN <<>> ELSE <<cur>>) \o splitWsFrom_SpaceOnly(s, i + 1, <<>>)
    ELSE splitWsFrom_SpaceOnly(s, i + 1, Append(cur, s[i]))

splitWs_SpaceOnly(s) == splitWsFrom_SpaceOnly(s, 1, <<>>)

splitWs(s) == splitWsFrom(s, 1, <<>>)

\* s.rstrip()
RECURSIVE rstrip(_)
rstrip(s) ==
    IF s = <<>> THEN <<>>
    ELSE IF isspace(s[Len(s)]) THEN rstrip(SubSeq(s, 1, Len(s) - 1))
    ELSE s

\* html.unescape(s), on strings without ';' and '#': the only character
\* reference the alphabet can spell is "&gt", which decodes to ">" (a
\* reference needs no closing ';', and a longer name decodes its prefix).
unescape(s) == replace(s, <<"&", "g", "t">>, <<">">>)

----------------------------------------------------------------------------
(* Canvas.normalize *)

\* WhiteSpace.normal / WhiteSpace.pre
WhiteSpace == {"normal", "pre"}

TextSnippet(text, whitespace) == [text |-> text, whitespace |-> whitespace]

\* One entry of the `result` list.  `collapsed` records that the entry is
\* the ' ' appended at line 69.
Piece(text, collapsed) == [text |-> text, collapsed |-> collapsed]

\* normalizeChars with `previous_isspace is not False` in place of the
\* truth test of line 66: None counts as "a space came before"
RECURSIVE normalizeChars_NoneIsSpace(_, _, _, _)
normalizeChars_NoneIsSpace(text, i, result, previous_isspace) ==
    IF i > Len(text) THEN [result |-> result, previous_isspace |-> previous_isspace]
    ELSE IF ~isspace(text[i])
         THEN normalizeChars_NoneIsSpace(text, i + 1, Append(result, Piece(<<text[i]>>, FALSE)), "False")
    ELSE IF previous_isspace # "False" \/ result = <<>>
         THEN normalizeChars_NoneIsSpace(text, i + 1, result, previous_isspace)
    ELSE normalizeChars_NoneIsSpace(text, i + 1, Append(result, Piece(<<" ">>, TRUE)), "True")

\* the inner loop, lines 60-70; previous_isspace is "True", "False" or "None"
RECURSIVE normalizeChars(_, _, _, _)
normalizeChars(text, i, result, previous_isspace) ==
    IF i > Len(text) THEN [result |-> result, previous_isspace |-> previous_isspace]
    ELSE IF ~isspace(text[i])
         THEN normalizeChars(text, i + 1, Append(result, Piece(<<text[i]>>, FALSE)), "False")
    ELSE IF previous_isspace = "True" \/ result = <<>>
         THEN normalizeChars(text, i + 1, result, previous_isspace)
    ELSE normalizeChars(text, i + 1, Append(result, Piece(<<" ">>, TRUE)), "True")

\* normalizeSnippets with previous_isspace set to False at the start of
\* every snippet: the collapsing state is not carried from one snippet to
\* the next
RECURSIVE normalizeSnippets_ResetFlag(_, _, _, _)
normalizeSnippets_ResetFlag(snips, k, result, previous_isspace) ==
    IF k > Len(snips) THEN result
    ELSE IF snips[k].whitespace = "pre"
         THEN normalizeSnippets_ResetFlag(snips, k + 1, Append(result, Piece(snips[k].text, FALSE)), "None")
    ELSE LET r == normalizeChars(snips[k].text, 1, result, "False")
         IN  normalizeSnippets_ResetFlag(snips, k + 1, r.result, r.previous_isspace)

\* normalizeSnippets without the `continue` of line 58: the characters of a
\* Preformatted snippet go through lines 60-70 as well
RECURSIVE normalizeSnippets_NoContinue(_, _, _, _)
normalizeSnippets_NoContinue(snips, k, result, previous_isspace) ==
    IF k > Len(snips) THEN result
    ELSE LET pre == snips[k].whitespace = "pre"
             r == normalizeChars(snips[k].text, 1,
                                 IF pre THEN Append(result, Piece(snips[k].text, FALSE))
                                 ELSE result,
                                 IF pre THEN "None" ELSE previous_isspace)
         IN  normalizeSnippets_NoContinue(snips, k + 1, r.result, r.previous_isspace)

\* normalizeSnippets with line 57 setting previous_isspace from the last
\* character of the Preformatted text: whitespace after the snippet is
\* merged with the whitespace the snippet ends with
RECURSIVE normalizeSnippets_MergeWithPre(_, _, _, _)
normalizeSnippets_MergeWithPre(snips, k, result, previous_isspace) ==
    IF k > Len(snips) THEN result
    ELSE IF snips[k].whitespace = "pre"
         THEN normalizeSnippets_MergeWithPre(
                  snips, k + 1, Append(result, Piece(snips[k].text, FALSE)),
                  IF snips[k].text # <<>> /\ isspace(snips[k].text[Len(snips[k].text)])
                  THEN "True" ELSE "False")
    ELSE LET r == normalizeChars(snips[k].text, 1, result, previous_isspace)
         IN  normalizeSnippets_MergeWithPre(snips, k + 1, r.result, r.previous_isspace)

\* the outer loop, lines 53-70
RECURSIVE normalizeSnippets(_, _, _, _)
normalizeSnippets(snips, k, result, previous_isspace) ==
    IF k > Len(snips) THEN result
    ELSE IF snips[k].whitespace = "pre"
         THEN normalizeSnippets(snips, k + 1, Append(result, Piece(snips[k].text, FALSE)), "None")
    ELSE LET r == normalizeChars(snips[k].text, 1, result, previous_isspace)
         IN  normalizeSnippets(snips, k + 1, r.result, r.previous_isspace)

\* normalizeResult without the branch of lines 55-58: every snippet is
\* collapsed
normalizeResult_NoPre(snips) ==
    normalizeSnippets([k \in 1..Len(snips) |-> TextSnippet(snips[k].text, "normal")],
                      1, <<>>, "False")

\* the `result` list at line 72
normalizeResult(snips) == normalizeSnippets(snips, 1, <<>>, "False")

\* ''.join(result)
normalize(snips) == join(<<>>, [k \in 1..Len(normalizeResult(snips)) |-> normalizeResult(snips)[k].text])

----------------------------------------------------------------------------
(* Canvas *)

CanvasState(b, c) == [blocks |-> b, current_block |-> c]

\* flush_inline without the test of line 75: an empty open block is
\* committed as well
flush_inline_NoGuard(b, c) == CanvasState(Append(b, normalize(c)), <<>>)

\* flush_inline without line 79: the open block is not cleared
flush_inline_KeepOpen(b, c) ==
    IF c # <<>>
    THEN CanvasState(Append(b, normalize(c)), c)
    ELSE CanvasState(b, c)

\* flush_inline with blocks.insert(0, block) in place of line 78
flush_inline_Prepend(b, c) ==
    IF c # <<>>
    THEN CanvasState(<<normalize(c)>> \o b, <<>>)
    ELSE CanvasState(b, c)

\* Canvas.flush_inline, lines 74-79
flush_inline(b, c) ==
    IF c # <<>>
    THEN CanvasState(Append(b, normalize(c)), <<>>)
    ELSE CanvasState(b, c)

\* write_block without line 34: the open block is not flushed first
write_block_NoFlush(b, c, text) ==
    CanvasState(b, Append(c, TextSnippet(text, "pre")))

\* Canvas.write_block, lines 33-35
write_block(b, c, text) ==
    LET f == flush_inline(b, c)
    IN  CanvasState(f.blocks, Append(f.current_block, TextSnippet(text, "pre")))

\* Canvas.write_inline, lines 37-39 (tag.whitespace is passed as whitespace)
write_inline(b, c, text, whitespace) ==
    CanvasState(b, Append(c, TextSnippet(text, whitespace)))

\* line 83 with strip() in place of rstrip(): leading whitespace goes too
joined_text_Strip(b) ==
    unescape(join(<<NL>>, [k \in 1..Len(b) |->
        LET t == rstrip(b[k])
            lead == CHOOSE n \in 0..Len(t) :
                        /\ \A i \in 1..n : isspace(t[i])
                        /\ (n < Len(t) => ~isspace(t[n + 1]))
        IN  SubSeq(t, lead + 1, Len(t))]))

\* the expression returned at line 83
joined_text(b) == unescape(join(<<NL>>, [k \in 1..Len(b) |-> rstrip(b[k])]))

\* get_text that normalizes the open block for the returned string only,
\* without committing it
Canvas_get_text_NoFlush(b, c) ==
    [blocks |-> b, current_block |-> c,
     ret |-> joined_text(IF c # <<>> THEN Append(b, normalize(c)) ELSE b)]

\* Canvas.get_text, lines 81-83
Canvas_get_text(b, c) ==
    LET f == flush_inline(b, c)
    IN  [blocks |-> f.blocks, current_block |-> f.current_block,
         ret |-> joined_text(f.blocks)]

\* the texts the caller writes
Chars == {"a", " ", "\n"}
EntityText == <<"&", "g", "t">>
Texts == {<<>>} \cup {<<ch>> : ch \in Chars} \cup {EntityText}

CanvasInit ==
    /\ blocks = <<>>
    /\ current_block = <<>>
    /\ op = "init"
    /\ prev_op = "init"
    /\ ret = <<>>
    /\ ncalls = 0
    /\ ref_blocks = <<>>
    /\ ref_current = <<>>
    /\ gt_open = FALSE
    /\ written = <<>>

WriteBlock ==
    /\ ncalls < MaxCalls
    /\ \E text \in Texts :
        LET s == write_block(blocks, current_block, text)
            r == write_block(ref_blocks, ref_current, text)
        IN  /\ blocks' = s.blocks
            /\ current_block' = s.current_block
            /\ ref_blocks' = r.blocks
            /\ ref_current' = r.current_block
            /\ written' = Append(written, text)
    /\ op' = "write_block"
    /\ prev_op' = op
    /\ ncalls' = ncalls + 1
    /\ UNCHANGED <<ret, gt_open>>

WriteInline ==
    /\ ncalls < MaxCalls
    /\ \E text \in Texts, whitespace \in WhiteSpace :
        LET s == write_inline(blocks, current_block, text, whitespace)
            r == write_inline(ref_blocks, ref_current, text, whitespace)
        IN  /\ blocks' = s.blocks
            /\ current_block' = s.current_block
            /\ ref_blocks' = r.blocks
            /\ ref_current' = r.current_block
            /\ written' = Append(written, text)
    /\ op' = "write_inline"
    /\ prev_op' = op
    /\ ncalls' = ncalls + 1
    /\ UNCHANGED <<ret, gt_open>>

FlushInline ==
    /\ ncalls < MaxCalls
    /\ LET s == flush_inline(blocks, current_block)
           r == flush_inline(ref_blocks, ref_current)
       IN  /\ blocks' = s.blocks
           /\ current_block' = s.current_block
           /\ ref_blocks' = r.blocks
           /\ ref_current' = r.current_block
    /\ op' = "flush_inline"
    /\ prev_op' = op
    /\ ncalls' = ncalls + 1
    /\ UNCHANGED <<ret, gt_open, written>>

GetText ==
    /\ ncalls < MaxCalls
    /\ LET s == Canvas_get_text(blocks, current_block)
       IN  /\ blocks' = s.blocks
           /\ current_block' = s.current_block
           /\ ret' = s.ret
    /\ gt_open' = (gt_open \/ current_block # <<>>)
    /\ op' = "get_text"
    /\ prev_op' = op
    /\ ncalls' = ncalls + 1
    /\ UNCHANGED <<ref_blocks, ref_current, written>>

----------------------------------------------------------------------------
(* Canvas.normalize called on an argument list *)

ExampleSnippets ==
    << TextSnippet(<<"x", " ", " ">>, "normal"),
       TextSnippet(<<" ", " ", "y", "\n", " ", " ", "z", " ", " ">>, "pre"),
       TextSnippet(<<" ", " ", "w">>, "normal") >>

\* [(Normal, "  a   b "), (Normal, "c")]
ExampleNormalSnippets ==
    << TextSnippet(<<" ", " ", "a", " ", " ", " ", "b", " ">>, "normal"),
       TextSnippet(<<"c">>, "normal") >>

SnippetArgs ==
    {TextSnippet(t, w) : t \in SeqsUpTo(Chars, MaxLen), w \in WhiteSpace}
        \cup {ExampleSnippets[k] : k \in 1..Len(ExampleSnippets)}
        \cup {ExampleNormalSnippets[k] : k \in 1..Len(ExampleNormalSnippets)}

NormInit ==
    /\ snippets = <<>>
    /\ normalized = <<>>
    /\ norm_done = FALSE

AddSnippet ==
    /\ ~norm_done
    /\ Len(snippets) < MaxSnippets
    /\ \E sn \in SnippetArgs : snippets' = Append(snippets, sn)
    /\ UNCHANGED <<normalized, norm_done>>

CallNormalize ==
    /\ ~norm_done
    /\ normalized' = normalizeResult(snippets)
    /\ norm_done' = TRUE
    /\ UNCHANGED snippets

----------------------------------------------------------------------------
(* Line *)

contains(s, ch) == \E i \in 1..Len(s) : s[i] = ch

\* segments_text with text.append(data) in place of line 133: nothing is
\* added after the newlines of a preformatted segment
RECURSIVE segments_text_NoPadding(_, _, _, _)
segments_text_NoPadding(segs, no, text, base_padding) ==
    IF no >= Len(segs) THEN text
    ELSE LET data == segs[no + 1]
         IN  IF no % 2 = 0
             THEN segments_text_NoPadding(segs, no + 1, text \o splitWs(data), base_padding)
             ELSE segments_text_NoPadding(segs, no + 1, Append(text, data), base_padding)

\* the loop of lines 127-133 over content.split('\0'); `no` counts from 0
RECURSIVE segments_text(_, _, _, _)
segments_text(segs, no, text, base_padding) ==
    IF no >= Len(segs) THEN text
    ELSE LET data == segs[no + 1]
         IN  IF no % 2 = 0
             THEN segments_text(segs, no + 1, text \o splitWs(data), base_padding)
             ELSE segments_text(segs, no + 1,
                                Append(text, replace(data, <<NL>>, <<NL>> \o base_padding)),
                                base_padding)

\* self.content after lines 117-122
content_after(content) ==
    IF ~contains(content, NUL) THEN content
    ELSE replace(content, <<NUL, NUL>>, <<>>)

\* line_pieces splitting the content as it was before line 122: the result
\* of the replace is stored but not used by this call
line_pieces_Stale(l) ==
    IF ~contains(l.content, NUL) THEN splitWs(l.content)
    ELSE segments_text(split(l.content, NUL), 0, <<>>, repeat(<<SP>>, l.padding))

\* the list `text` after lines 117-133
line_pieces(l) ==
    IF ~contains(l.content, NUL) THEN splitWs(l.content)
    ELSE segments_text(split(content_after(l.content), NUL), 0, <<>>,
                       repeat(<<SP>>, l.padding))

\* line 136 without the bullet's length taken off the padding
indent_Full(l) == repeat(<<SP>>, l.padding)

\* the indentation of line 136
indent(l) == repeat(<<SP>>, l.padding - Len(l.list_bullet))

\* the string returned at lines 135-141
line_string(l) ==
    repeat(<<NL>>, l.margin_before)
        \o indent(l)
        \o l.list_bullet
        \o l.prefix
        \o join(<<SP>>, line_pieces(l))
        \o l.suffix
        \o repeat(<<NL>>, l.margin_after)

\* Line.get_text, lines 112-141: the Line afterwards and the returned string
Line_get_text(l) ==
    [line |-> [l EXCEPT !.content = content_after(l.content)],
     ret  |-> line_string(l)]

LineChars == {"a", " ", "\n", NUL}
ExampleContent == <<"a", "l", "p", "h", "a", " ", " ", " ", "b", "e", "t", "a">>
\* "a\0\0b\0 \nc\0 d": a doubled sentinel and a preformatted segment
SentinelContent == <<"a", NUL, NUL, "b", NUL, " ", "\n", "c", NUL, " ", "d">>
Contents == SeqsUpTo(LineChars, MaxContentLen) \cup {ExampleContent, SentinelContent}
\* the paddings up to the bound, and that of the example Line
Paddings == 0..MaxPadding \cup {4}
Margins == 0..MaxMargin
Bullets == {<<>>, <<"-">>, <<"*", " ">>}
Prefixes == {<<>>, <<"[", " ">>}
Suffixes == {<<>>, <<" ", "]">>}

\* Line.__init__, lines 103-110
LineInit ==
    /\ line = [margin_before |-> 0, margin_after |-> 0, prefix |-> <<>>,
               suffix |-> <<>>, content |-> <<>>, list_bullet |-> <<>>,
               padding |-> 0]
    /\ content0 = <<>>
    /\ line_text = <<>>
    /\ line_calls = 0

\* the caller populates the fields before it asks for the text
SetMarginBefore ==
    /\ line_calls = 0
    /\ \E n \in Margins : line' = [line EXCEPT !.margin_before = n]
    /\ UNCHANGED <<content0, line_text, line_calls>>

SetMarginAfter ==
    /\ line_calls = 0
    /\ \E n \in Margins : line' = [line EXCEPT !.margin_after = n]
    /\ UNCHANGED <<content0, line_text, line_calls>>

SetPrefix ==
    /\ line_calls = 0
    /\ \E s \in Prefixes : line' = [line EXCEPT !.prefix = s]
    /\ UNCHANGED <<content0, line_text, line_calls>>

SetSuffix ==
    /\ line_calls = 0
    /\ \E s \in Suffixes : line' = [line EXCEPT !.suffix = s]
    /\ UNCHANGED <<content0, line_text, line_calls>>

SetContent ==
    /\ line_calls = 0
    /\ \E s \in Contents : line' = [line EXCEPT !.content = s]
    /\ UNCHANGED <<content0, line_text, line_calls>>

SetListBullet ==
    /\ line_calls = 0
    /\ \E s \in Bullets : line' = [line EXCEPT !.list_bullet = s]
    /\ UNCHANGED <<content0, line_text, line_calls>>

SetPadding ==
    /\ line_calls = 0
    /\ \E n \in Paddings : line' = [line EXCEPT !.padding = n]
    /\ UNCHANGED <<content0, line_text, line_calls>>

LineGetText ==
    /\ line_calls < MaxLineCalls
    /\ LET r == Line_get_text(line)
       IN  /\ line' = r.line
           /\ line_text' = r.ret
    /\ content0' = line.content
    /\ line_calls' = line_calls + 1

----------------------------------------------------------------------------
(* Specifications *)

\* a Canvas driven by its four methods
Init == CanvasInit /\ NormInit /\ LineInit

Next ==
    \/ WriteBlock /\ UNCHANGED <<normVars, lineVars>>
    \/ WriteInline /\ UNCHANGED <<normVars, lineVars>>
    \/ FlushInline /\ UNCHANGED <<normVars, lineVars>>
    \/ GetText /\ UNCHANGED <<normVars, lineVars>>

Spec == Init /\ [][Next]_vars

\* Canvas.normalize applied to an argument list
NormNext ==
    \/ AddSnippet /\ UNCHANGED <<canvasVars, lineVars>>
    \/ CallNormalize /\ UNCHANGED <<canvasVars, lineVars>>

NormSpec == Init /\ [][NormNext]_vars

\* one Line: constructed, populated, rendered
LineNext ==
    \/ SetMarginBefore /\ UNCHANGED <<canvasVars, normVars>>
    \/ SetMarginAfter /\ UNCHANGED <<canvasVars, normVars>>
    \/ SetPrefix /\ UNCHANGED <<canvasVars, normVars>>
    \/ SetSuffix /\ UNCHANGED <<canvasVars, normVars>>
    \/ SetContent /\ UNCHANGED <<canvasVars, normVars>>
    \/ SetListBullet /\ UNCHANGED <<canvasVars, normVars>>
    \/ SetPadding /\ UNCHANGED <<canvasVars, normVars>>
    \/ LineGetText /\ UNCHANGED <<canvasVars, normVars>>

LineSpec == Init /\ [][LineNext]_vars

----------------------------------------------------------------------------
(* Properties of Canvas.normalize (NormSpec) *)

\* the characters of a result list, each with the mark of its entry
RECURSIVE MarkedChars(_)
MarkedChars(result) ==
    IF result = <<>> THEN <<>>
    ELSE [i \in 1..Len(result[1].text) |->
             [ch |-> result[1].text[i], collapsed |-> result[1].collapsed]]
         \o MarkedChars(Tail(result))

\* the string normalize returned
normalized_string == [i \in 1..Len(MarkedChars(normalized)) |-> MarkedChars(normalized)[i].ch]

\* the texts of the argument list, one after the other
RECURSIVE ArgumentText(_)
ArgumentText(snips) ==
    IF snips = <<>> THEN <<>> ELSE snips[1].text \o ArgumentText(Tail(snips))

AllPre(snips) == \A k \in 1..Len(snips) : snips[k].whitespace = "pre"

\* C1: the string returned by normalize never has two adjacent spaces that
\* were both emitted by the collapsing of Normal text, and never begins
\* with such a space.
C1_NoLeadingOrDoubledCollapsedSpace ==
    norm_done =>
        LET out == MarkedChars(normalized)
        IN  /\ out # <<>> => ~out[1].collapsed
            /\ \A i \in 1..(Len(out) - 1) : ~(out[i].collapsed /\ out[i + 1].collapsed)

\* C3: a block of only Preformatted snippets normalizes to the concatenation
\* of the snippets' texts, character for character.
C3_AllPreUnchanged ==
    (norm_done /\ AllPre(snippets)) => normalized_string = ArgumentText(snippets)

C3_Witness ==
    /\ norm_done
    /\ AllPre(snippets)
    /\ Len(snippets) >= 2
    /\ \E i \in 1..Len(normalized_string) : isspace(normalized_string[i])
    /\ isspace(normalized_string[1])
    /\ isspace(normalized_string[Len(normalized_string)])

\* C10 as stated: the example block normalizes to "x y\n  z w".
C10_ExampleAsStated ==
    (norm_done /\ snippets = ExampleSnippets) =>
        normalized_string = <<"x", " ", "y", "\n", " ", " ", "z", " ", "w">>

\* C10 as amended: the example block normalizes to "x   y\n  z   w": the
\* Preformatted text keeps its two leading and two trailing spaces, and
\* each neighbouring Normal run of spaces adds one space.
C10_Example ==
    (norm_done /\ snippets = ExampleSnippets) =>
        normalized_string = <<"x", " ", " ", " ", "y", "\n", " ", " ", "z", " ", " ", " ", "w">>

C10_Witness == norm_done /\ snippets = ExampleSnippets

----------------------------------------------------------------------------
(* Properties of the Canvas (Spec) *)

\* what a get_text call made now would return
FinalText(b, c) == Canvas_get_text(b, c).ret

\* C2 as stated: the get_text calls made between the writes do not change
\* what the final get_text returns; the second Canvas is the same document
\* built without them.
C2_GetTextReadOnly ==
    FinalText(blocks, current_block) = FinalText(ref_blocks, ref_current)

\* C2 as amended: get_text calls made while the open block is empty do not
\* change what the final get_text returns (a call made while the open block
\* is non-empty commits it, so that text written inline afterwards starts a
\* new block).
C2_GetTextReadOnlyWhenFlushed ==
    ~gt_open => FinalText(blocks, current_block) = FinalText(ref_blocks, ref_current)

C2_Witness ==
    /\ ~gt_open
    /\ ret # <<>>
    /\ op = "write_inline"
    /\ prev_op = "get_text"
    /\ blocks # <<>>

\* C4: a flush_inline call that directly follows another flush_inline call,
\* or that finds the open block empty, changes neither blocks nor the open
\* block.
C4_FlushIdempotent ==
    [][(op' = "flush_inline" /\ ncalls' = ncalls + 1
            /\ (op = "flush_inline" \/ current_block = <<>>))
        => (blocks' = blocks /\ current_block' = current_block)]_vars

C4_Witness ==
    /\ op = "flush_inline"
    /\ prev_op = "flush_inline"
    /\ Len(blocks) = 1
    /\ blocks[1] # <<>>

\* the end of b without its trailing whitespace
StrippedLen(b) ==
    CHOOSE n \in 0..Len(b) :
        /\ \A i \in (n + 1)..Len(b) : isspace(b[i])
        /\ (n > 0 => ~isspace(b[n]))

RECURSIVE Offset(_, _)
\* where block k starts in the joined string: after the k - 1 earlier
\* blocks and one newline for each of them
Offset(bs, k) ==
    IF k = 1 THEN 0 ELSE Offset(bs, k - 1) + StrippedLen(bs[k - 1]) + 1

\* the blocks bs, each up to its last non-whitespace character, in order,
\* with one newline between two consecutive blocks
BlocksText(bs) ==
    IF bs = <<>> THEN <<>>
    ELSE [i \in 1..(Offset(bs, Len(bs)) + StrippedLen(bs[Len(bs)])) |->
            LET k == CHOOSE j \in 1..Len(bs) :
                        /\ Offset(bs, j) < i
                        /\ (j < Len(bs) => i <= Offset(bs, j + 1))
            IN  IF i - Offset(bs, k) <= StrippedLen(bs[k])
                THEN bs[k][i - Offset(bs, k)]
                ELSE NL]

\* C5: get_text returns the decoded text of the blocks committed so far, the
\* open block (normalized) as the last one, each block without its trailing
\* whitespace, one newline between consecutive blocks.
C5_GetTextJoinsStrippedBlocks ==
    [][(op' = "get_text" /\ ncalls' = ncalls + 1) =>
        LET committed ==
                IF current_block = <<>> THEN blocks
                ELSE Append(blocks, normalize(current_block))
        IN  ret' = unescape(BlocksText(committed))]_vars

C5_Witness ==
    /\ op = "get_text"
    /\ prev_op \in {"write_inline", "write_block"}
    /\ Len(blocks) >= 2
    /\ \E k \in 1..Len(blocks) : StrippedLen(blocks[k]) \notin {0, Len(blocks[k])}
    /\ \E k \in 1..Len(blocks) : blocks[k] # <<>> /\ isspace(blocks[k][1])

----------------------------------------------------------------------------
(* Properties of the Line (LineSpec) *)

\* Line.get_text has no raise and no assert (lines 112-141): every call
\* returns a string
LineReturned == line_calls > 0

\* the Line as it was when get_text was last called
line0 == [line EXCEPT !.content = content0]

Spaces(n) == [i \in 1..n |-> SP]
Newlines(n) == [i \in 1..n |-> NL]

\* the part of the returned string that comes from content: what lies
\* between the prefix and the suffix
LineBody ==
    LET before == line.margin_before + Len(indent(line)) + Len(line.list_bullet)
                      + Len(line.prefix)
        after == Len(line.suffix) + line.margin_after
    IN  SubSeq(line_text, before + 1, Len(line_text) - after)

HasDoubledNul(s) == \E i \in 1..(Len(s) - 1) : s[i] = NUL /\ s[i + 1] = NUL

\* C6: get_text never returns a string for a Line whose list_bullet is
\* longer than its padding.
C6_LongBulletNeverReturns ==
    Len(line.list_bullet) > line.padding => ~LineReturned

\* C7: when content holds a sentinel, get_text replaces every doubled
\* sentinel pair by one sentinel before it splits content.
C7_DoubledSentinelBecomesOne ==
    (LineReturned /\ contains(content0, NUL)) =>
        line.content = replace(content0, <<NUL, NUL>>, <<NUL>>)

\* C8: the part of get_text's output that comes from content holds no
\* sentinel.
C8_NoSentinelInBody ==
    LineReturned => ~contains(LineBody, NUL)

C8_Witness ==
    /\ LineReturned
    /\ HasDoubledNul(content0)
    /\ \E i \in 1..Len(content0) :
          /\ content0[i] = NUL
          /\ (i > 1 => content0[i - 1] # NUL)
          /\ (i < Len(content0) => content0[i + 1] # NUL)
    /\ LineBody # <<>>

\* C9: with len(list_bullet) <= padding, get_text returns margin_before
\* newlines, padding - len(list_bullet) spaces, list_bullet, prefix, the
\* pieces of content joined by single spaces, suffix, margin_after newlines;
\* the Line padding=4, list_bullet="-", content="alpha   beta",
\* margin_before=1 gives "\n   -alpha beta".
C9_LineLayout ==
    (LineReturned /\ Len(line.list_bullet) <= line.padding) =>
        /\ line_text =
              Newlines(line.margin_before)
                  \o Spaces(line.padding - Len(line.list_bullet))
                  \o line.list_bullet
                  \o line.prefix
                  \o join(<<SP>>, line_pieces(line0))
                  \o line.suffix
                  \o Newlines(line.margin_after)
        /\ (line0 = [margin_before |-> 1, margin_after |-> 0, prefix |-> <<>>,
                     suffix |-> <<>>, content |-> ExampleContent,
                     list_bullet |-> <<"-">>, padding |-> 4])
              => line_text = <<"\n", " ", " ", " ", "-", "a", "l", "p", "h", "a",
                               " ", "b", "e", "t", "a">>

C9_Witness ==
    /\ LineReturned
    /\ line0 = [margin_before |-> 1, margin_after |-> 0, prefix |-> <<>>,
                suffix |-> <<>>, content |-> ExampleContent,
                list_bullet |-> <<"-">>, padding |-> 4]

----------------------------------------------------------------------------
(* Further properties of Canvas.normalize (NormSpec) *)

AllNormal(snips) == \A k \in 1..Len(snips) : snips[k].whitespace = "normal"

\* C11: a block of only Normal snippets normalizes to the same string as one
\* Normal snippet holding the concatenation of their texts;
\* [(Normal, "  a   b "), (Normal, "c")] gives "a b c".
C11_NormalSnippetsAsOne ==
    (norm_done /\ AllNormal(snippets)) =>
        /\ normalized_string = normalize(<<TextSnippet(ArgumentText(snippets), "normal")>>)
        /\ snippets = ExampleNormalSnippets
              => normalized_string = <<"a", " ", "b", " ", "c">>

C11_Witness == norm_done /\ snippets = ExampleNormalSnippets

\* the last snippet is Normal and starts with whitespace, the one before it
\* is Preformatted
NormalAfterPre(snips) ==
    /\ Len(snips) >= 2
    /\ snips[Len(snips) - 1].whitespace = "pre"
    /\ snips[Len(snips)].whitespace = "normal"
    /\ snips[Len(snips)].text # <<>>
    /\ isspace(snips[Len(snips)].text[1])

\* C18: whitespace at the start of a Normal snippet that directly follows a
\* Preformatted snippet gives exactly one space, whatever the Preformatted
\* text ends with, and the Preformatted text is in the output untouched.
C18_SpaceAfterPreIndependent ==
    (norm_done /\ NormalAfterPre(snippets)) =>
        LET n == Len(snippets)
            pre == snippets[n - 1].text
            before == normalize(SubSeq(snippets, 1, n - 1))
            p == Len(before)
            out == MarkedChars(normalized)
        IN  /\ SubSeq(before, p - Len(pre) + 1, p) = pre
            /\ SubSeq(normalized_string, 1, p) = before
            /\ Len(out) >= p + 1
            /\ out[p + 1].ch = SP
            /\ out[p + 1].collapsed
            /\ Len(out) >= p + 2 => ~out[p + 2].collapsed
            /\ SubSeq(normalized_string, p + 2, Len(out)) = normalize(<<snippets[n]>>)

C18_Witness ==
    /\ norm_done
    /\ snippets = <<ExampleSnippets[2], ExampleSnippets[3]>>

----------------------------------------------------------------------------
(* Further properties of the Line (LineSpec) *)

\* C12: a get_text call leaves every field of the Line, content included, as
\* it was before the call.
C12_GetTextLeavesFields ==
    LineReturned => line = line0

\* s without the one space it may end with
DropTrailingSpace(s) ==
    IF s # <<>> /\ s[Len(s)] = SP THEN SubSeq(s, 1, Len(s) - 1) ELSE s

\* C13 as stated: for content without a sentinel, the line body equals
\* Canvas.normalize of one Normal snippet holding the same string.
C13_BodyEqualsNormalize ==
    (LineReturned /\ ~contains(content0, NUL)) =>
        LineBody = normalize(<<TextSnippet(content0, "normal")>>)

\* C13 as amended: for content without a sentinel, the line body equals
\* Canvas.normalize of one Normal snippet holding the same string, without
\* the single trailing space normalize keeps when the string ends with
\* whitespace.
C13_BodyEqualsNormalizeStripped ==
    (LineReturned /\ ~contains(content0, NUL)) =>
        LineBody = DropTrailingSpace(normalize(<<TextSnippet(content0, "normal")>>))

C13_Witness ==
    /\ LineReturned
    /\ ~contains(content0, NUL)
    /\ Len(content0) = 3
    /\ isspace(content0[1])
    /\ ~isspace(content0[2])
    /\ isspace(content0[3])
    /\ line.prefix # <<>>
    /\ line.suffix # <<>>

----------------------------------------------------------------------------
(* Further properties of the Canvas (Spec) *)

IsPrefix(s, t) == Len(s) <= Len(t) /\ SubSeq(t, 1, Len(s)) = s

\* a Canvas method has just been called
Called(name) == op' = name /\ ncalls' = ncalls + 1

\* C14: blocks is append-only: every call leaves the earlier entries in
\* place, unchanged and in order, and adds at most one entry.
C14_BlocksAppendOnly ==
    [][IsPrefix(blocks, blocks') /\ Len(blocks') <= Len(blocks) + 1]_vars

C14_Witness ==
    /\ op = "flush_inline"
    /\ gt_open
    /\ Len(blocks) = 2
    /\ blocks[1] # blocks[2]
    /\ blocks[2] # <<>>

\* C15: write_block(text) commits the snippets written before it as exactly
\* one new block (none when the open block was empty) and leaves the open
\* block holding exactly one snippet, (text, pre).
C15_WriteBlockStartsNewBlock ==
    [][Called("write_block") =>
        /\ current_block' = <<TextSnippet(written'[Len(written')], "pre")>>
        /\ blocks' = IF current_block = <<>> THEN blocks
                     ELSE Append(blocks, normalize(current_block))]_vars

C15_Witness ==
    /\ op = "write_block"
    /\ prev_op = "write_inline"
    /\ Len(written) >= 3
    /\ blocks # <<>>
    /\ blocks[Len(blocks)] # <<>>
    /\ current_block[1].text # <<>>

\* C16: the open block is empty in the initial state and right after every
\* flush_inline and every get_text; it is non-empty only right after a
\* write_inline or a write_block.
C16_OpenBlockOnlyAfterWrite ==
    /\ op \in {"init", "flush_inline", "get_text"} => current_block = <<>>
    /\ current_block # <<>> => op \in {"write_inline", "write_block"}

C16_Witness ==
    /\ op = "get_text"
    /\ prev_op = "write_inline"
    /\ current_block = <<>>
    /\ Len(blocks) = 1
    /\ blocks[1] # <<>>

RECURSIVE ConcatAll(_)
\* the strings of a list, one after the other
ConcatAll(ss) == IF ss = <<>> THEN <<>> ELSE ss[1] \o ConcatAll(Tail(ss))

NotSpace(ch) == ~isspace(ch)

\* the non-whitespace characters of s, in order
NonWs(s) == SelectSeq(s, NotSpace)

\* C19: the non-whitespace characters of the written texts are, in the order
\* written, the non-whitespace characters of the blocks (the open block's
\* snippets last) and of the text get_text decodes and returns.
C19_NonWhitespaceKept ==
    /\ NonWs(ConcatAll(blocks) \o ArgumentText(current_block)) = NonWs(ConcatAll(written))
    /\ op = "get_text" =>
          /\ ret = unescape(BlocksText(blocks))
          /\ NonWs(BlocksText(blocks)) = NonWs(ConcatAll(written))

C19_Witness ==
    /\ op = "get_text"
    /\ Len(written) >= 3
    /\ Len(NonWs(ConcatAll(written))) >= 2
    /\ Len(ConcatAll(blocks)) < Len(ConcatAll(written))
    /\ Len(blocks) >= 2

\* the number of sentinels in s[1..i]
NulsUpTo(s, i) == Cardinality({m \in 1..i : s[m] = NUL})

\* where the j-th sentinel of s is; 0 for j = 0, past the end after the last
NulAt(s, j) ==
    IF j = 0 THEN 0
    ELSE IF j > NulsUpTo(s, Len(s)) THEN Len(s) + 1
    ELSE CHOOSE i \in 1..Len(s) : s[i] = NUL /\ NulsUpTo(s, i) = j

\* the segment number `no` (from 0) of s: what lies between two sentinels
Segment(s, no) == SubSeq(s, NulAt(s, no) + 1, NulAt(s, no + 1) - 1)

RECURSIVE Indented(_, _)
\* data with n spaces after each of its newlines
Indented(data, n) ==
    IF data = <<>> THEN <<>>
    ELSE (IF Head(data) = NL THEN <<NL>> \o Spaces(n) ELSE <<Head(data)>>)
             \o Indented(Tail(data), n)

RECURSIVE AlternatingPieces(_, _, _)
\* the pieces of the segments 0..no of s: the words of an even segment, an
\* odd segment whole
AlternatingPieces(s, no, n) ==
    IF no < 0 THEN <<>>
    ELSE AlternatingPieces(s, no - 1, n)
             \o (IF no % 2 = 0 THEN splitWs(Segment(s, no))
                 ELSE <<Indented(Segment(s, no), n)>>)

\* C17: when content holds a sentinel, the line body is made of the segments
\* between the sentinels (of content as line 122 leaves it) taken
\* alternately: an even segment whitespace-collapsed, an odd segment
\* verbatim with padding spaces after each of its newlines.
C17_SegmentsAlternate ==
    (LineReturned /\ contains(content0, NUL)) =>
        LineBody = join(<<SP>>, AlternatingPieces(line.content,
                                                  NulsUpTo(line.content, Len(line.content)),
                                                  line.padding))

C17_Witness ==
    /\ line_calls = 1
    /\ content0 = SentinelContent
    /\ line.padding = 2

\* C20: a second get_text call, with no field assigned since the first,
\* returns the same string as the first.
C20_SecondCallSameText ==
    [][(line_calls >= 1 /\ line_calls' = line_calls + 1) => line_text' = line_text]_vars

C20_Witness ==
    /\ line_calls = 2
    /\ content0 = replace(SentinelContent, <<NUL, NUL>>, <<>>)
    /\ line_text # <<>>

====
